---- MODULE Spec2Model ----
(***************************************************************************)
(* One run of the command `gas rm <tbrn> [-r]` of tensorbay/cli/rm.py,     *)
(* step by step: get_gas, TBRN(...), get_dataset_client, the local checks  *)
(* of _implement_rm and the calls it makes on the dataset client.          *)
(*                                                                         *)
(* Strings that the code inspects character by character (remote paths,    *)
(* version tokens) are sequences of one-character strings; names that the  *)
(* code only passes on (dataset name, segment name, access key, url) are   *)
(* strings.                                                                *)
(***************************************************************************)
EXTENDS Integers, Sequences, FiniteSets, TLC

VARIABLES
    obj,            \* the click context object: access_key, url
    config,         \* the config file ~/.gasconfig as the run finds it
    tbrn,           \* the locator argument, as its components
    is_recursive,   \* the -r flag
    pc,             \* the statement of _implement_rm the run is at
    gas,            \* the GAS client built by get_gas
    config_reads,   \* how often read_config was called
    info,           \* TBRN(tbrn)
    data_paths,     \* what segment.list_data_paths() returned
    data,           \* what filter_data returned
    calls,          \* the calls made on the dataset service, in order
    stderr,         \* the lines echoed to the error stream, in order
    exit_code,      \* the process's exit status, Running until it ends
    outcome         \* how the run ended

vars == <<obj, config, tbrn, is_recursive, pc, gas, config_reads, info,
          data_paths, data, calls, stderr, exit_code, outcome>>

----------------------------------------------------------------------------
(* Bounds and input universes *)

\* the longest listing list_data_paths returns
MaxListing == 3

\* exit_code while the process has not ended
Running == 0 - 1

Range(s) == {s[i] : i \in DOMAIN s}

\* remote paths: a file at the top, a directory, files below it, a file
\* below another directory, and a file whose name merely starts like "a"
Paths ==
    { <<"a">>, <<"a", "/">>, <<"a", "/", "1">>, <<"a", "/", "2">>,
      <<"b", "/", "1">>, <<"a", "b">> }

\* version tokens after '#': draft numbers, a zero, a revision id
VersionTokens == { <<"1">>, <<"2">>, <<"0">>, <<"v", "2">> }

\* listings without repetition, of length 0..MaxListing
Listings ==
    UNION { { l \in [1..n -> Paths] : \A i, j \in 1..n : i # j => l[i] # l[j] }
            : n \in 0..MaxListing }

\* the components of a locator string tb:<dataset>[:<segment>][/<path>][#<version>];
\* an absent path or version is the empty sequence, fusion marks the
\* locator forms that address a file of a fusion dataset
RawLocators ==
    { r \in [ scheme : {"tb", "xx"},
              dataset : {"", "ds1"},
              has_segment : BOOLEAN,
              segment : {"", "seg1"},
              path : {<<>>} \cup Paths,
              version : {<<>>} \cup VersionTokens,
              fusion : BOOLEAN ] :
        /\ (r.has_segment <=> r.segment # "")
        /\ (r.fusion => r.path # <<>>) }

\* the config file: missing, without the profile, or with the profile's
\* accessKey and url ("" when the profile has no url)
ConfigFiles ==
    { c \in [ exists : BOOLEAN, has_profile : BOOLEAN,
              accessKey : {"", "KEY"}, url : {"", "URL"} ] :
        /\ (~c.exists => ~c.has_profile)
        /\ (~c.has_profile => c.accessKey = "" /\ c.url = "")
        /\ (c.url # "" => c.accessKey # "") }

----------------------------------------------------------------------------
(* str methods *)

startswith(s, prefix) ==
    /\ Len(prefix) <= Len(s)
    /\ SubSeq(s, 1, Len(prefix)) = prefix

endswith(s, suffix) ==
    /\ Len(suffix) <= Len(s)
    /\ SubSeq(s, Len(s) - Len(suffix) + 1, Len(s)) = suffix

----------------------------------------------------------------------------
(* tbrn.py: TBRN and TBRNType *)

TBRNType == {"DATASET", "SEGMENT", "NORMAL_FILE", "FUSION_FILE"}

Digits == {"0", "1", "2"}

DigitValue(c) == IF c = "0" THEN 0 ELSE IF c = "1" THEN 1 ELSE 2

RECURSIVE IntOf(_)
IntOf(token) ==
    IF token = <<>> THEN 0
    ELSE 10 * IntOf(SubSeq(token, 1, Len(token) - 1)) + DigitValue(token[Len(token)])

IsDraftToken(token) ==
    /\ token # <<>>
    /\ \A i \in DOMAIN token : token[i] \in Digits
    /\ IntOf(token) > 0

NoRevision == <<>>

Malformed(raw) == raw.scheme # "tb" \/ raw.dataset = ""

TBRN(raw) ==
    [ type |-> IF raw.path # <<>>
                 THEN (IF raw.fusion THEN "FUSION_FILE" ELSE "NORMAL_FILE")
                 ELSE IF raw.has_segment THEN "SEGMENT" ELSE "DATASET",
      dataset_name |-> raw.dataset,
      segment_name |-> raw.segment,
      remote_path |-> raw.path,
      is_draft |-> IsDraftToken(raw.version),
      draft_number |-> IF IsDraftToken(raw.version) THEN IntOf(raw.version) ELSE 0,
      revision |-> IF raw.version # <<>> /\ ~IsDraftToken(raw.version)
                     THEN raw.version ELSE NoRevision ]

NoInfo ==
    [ type |-> "NONE", dataset_name |-> "", segment_name |-> "",
      remote_path |-> <<>>, is_draft |-> FALSE, draft_number |-> 0,
      revision |-> NoRevision ]

----------------------------------------------------------------------------
(* utility.py *)

\* read_config: error() when the file is missing, KeyError when the profile is
read_config(c) ==
    IF ~c.exists THEN [status |-> "not_exist", access_key |-> "", url |-> ""]
    ELSE IF ~c.has_profile THEN [status |-> "KeyError", access_key |-> "", url |-> ""]
    ELSE [status |-> "ok", access_key |-> c.accessKey, url |-> c.url]

\* filter_data(data_list, remote_path, is_recursive)
filter_data(data_list, remote_path, recursive) ==
    IF recursive
      THEN { data_list[i] : i \in { j \in DOMAIN data_list :
                                      startswith(data_list[j], remote_path) } }
      ELSE { data_list[i] : i \in { j \in DOMAIN data_list :
                                      data_list[j] = remote_path } }

NoGas == [access_key |-> "", url |-> ""]

\* one call on the dataset service; ok is FALSE when the call raised
Call(op, ok, name, draft, revision, paths) ==
    [ op |-> op, ok |-> ok, name |-> name, draft |-> draft,
      revision |-> revision, paths |-> paths ]

\* sys.exit(1) after one line on the error stream
Exit1(line, how) ==
    /\ stderr' = Append(stderr, line)
    /\ exit_code' = 1
    /\ outcome' = how
    /\ pc' = "done"

\* what the interpreter writes for an exception nobody catches: the header,
\* the frames, the exception's own line
Traceback ==
    << "Traceback (most recent call last):", "  File ..., in _implement_rm", "Exception" >>

\* the lines of read_config's message for a missing file
NotExistMessage ==
    << "ERROR: .gasconfig not exist", "", "Please use 'gas config <accessKey>' to create config file" >>

\* a call on the client raised: the exception leaves _implement_rm
Raise ==
    /\ stderr' = stderr \o Traceback
    /\ exit_code' = 1
    /\ outcome' = "RemoteError"
    /\ pc' = "done"

Goto(label) ==
    /\ pc' = label
    /\ UNCHANGED <<stderr, exit_code, outcome>>

----------------------------------------------------------------------------
Init ==
    /\ obj \in [access_key : {"", "KEY"}, url : {"", "URL"}]
    /\ config \in ConfigFiles
    /\ tbrn \in RawLocators
    /\ is_recursive \in BOOLEAN
    /\ pc = "get_gas"
    /\ gas = NoGas
    /\ config_reads = 0
    /\ info = NoInfo
    /\ data_paths = <<>>
    /\ data = {}
    /\ calls = <<>>
    /\ stderr = <<>>
    /\ exit_code = Running
    /\ outcome = "Running"

\* GetGas that turns to the config file when either argument is empty
GetGas_EitherEmpty ==
    /\ pc = "get_gas"
    /\ LET from_config == obj.access_key = "" \/ obj.url = ""
           read == read_config(config)
           access_key == IF from_config THEN read.access_key ELSE obj.access_key
           url == IF from_config THEN read.url ELSE obj.url
       IN  /\ config_reads' = IF from_config THEN config_reads + 1 ELSE config_reads
           /\ IF from_config /\ read.status = "not_exist"
                THEN /\ stderr' = stderr \o NotExistMessage
                     /\ exit_code' = 1
                     /\ outcome' = "ConfigError"
                     /\ pc' = "done"
                     /\ UNCHANGED gas
              ELSE IF from_config /\ read.status = "KeyError"
                THEN /\ stderr' = stderr \o Traceback
                     /\ exit_code' = 1
                     /\ outcome' = "ConfigError"
                     /\ pc' = "done"
                     /\ UNCHANGED gas
              ELSE IF access_key = ""
                THEN Exit1("ERROR: AccessKey should be appointed", "ConfigError")
                     /\ UNCHANGED gas
              ELSE /\ gas' = [access_key |-> access_key, url |-> url]
                   /\ Goto("TBRN")
    /\ UNCHANGED <<obj, config, tbrn, is_recursive, info, data_paths, data, calls>>

\* rm.py:18, utility.py:88-94
GetGas ==
    /\ pc = "get_gas"
    /\ LET from_config == obj.access_key = "" /\ obj.url = ""
           read == read_config(config)
           access_key == IF from_config THEN read.access_key ELSE obj.access_key
           url == IF from_config THEN read.url ELSE obj.url
       IN  /\ config_reads' = IF from_config THEN config_reads + 1 ELSE config_reads
           /\ IF from_config /\ read.status = "not_exist"
                THEN /\ stderr' = stderr \o NotExistMessage
                     /\ exit_code' = 1
                     /\ outcome' = "ConfigError"
                     /\ pc' = "done"
                     /\ UNCHANGED gas
              ELSE IF from_config /\ read.status = "KeyError"
                THEN /\ stderr' = stderr \o Traceback
                     /\ exit_code' = 1
                     /\ outcome' = "ConfigError"
                     /\ pc' = "done"
                     /\ UNCHANGED gas
              ELSE IF access_key = ""
                THEN Exit1("ERROR: AccessKey should be appointed", "ConfigError")
                     /\ UNCHANGED gas
              ELSE /\ gas' = [access_key |-> access_key, url |-> url]
                   /\ Goto("TBRN")
    /\ UNCHANGED <<obj, config, tbrn, is_recursive, info, data_paths, data, calls>>

\* ParseTBRN that hands any string on to get_dataset_client
ParseTBRN_Lenient ==
    /\ pc = "TBRN"
    /\ info' = TBRN(tbrn)
    /\ Goto("get_dataset")
    /\ UNCHANGED <<obj, config, tbrn, is_recursive, gas, config_reads,
                   data_paths, data, calls>>

\* rm.py:19
ParseTBRN ==
    /\ pc = "TBRN"
    /\ IF Malformed(tbrn)
         THEN /\ stderr' = stderr \o Traceback
              /\ exit_code' = 1
              /\ outcome' = "MalformedLocator"
              /\ pc' = "done"
              /\ UNCHANGED info
         ELSE /\ info' = TBRN(tbrn)
              /\ Goto("get_dataset")
    /\ UNCHANGED <<obj, config, tbrn, is_recursive, gas, config_reads,
                   data_paths, data, calls>>

\* rm.py:20, utility.py:129-133: gas.get_dataset(info.dataset_name, is_fusion)
GetDataset ==
    /\ pc = "get_dataset"
    /\ \E ok \in BOOLEAN :
        /\ calls' = Append(calls, Call("get_dataset", ok, info.dataset_name, 0, NoRevision, {}))
        /\ IF ok THEN Goto("checkout") ELSE Raise
    /\ UNCHANGED <<obj, config, tbrn, is_recursive, gas, config_reads, info,
                   data_paths, data>>

\* Checkout that catches the exception of a failed checkout and goes on
Checkout_IgnoresFailure ==
    /\ pc = "checkout"
    /\ IF info.is_draft
         THEN \E ok \in BOOLEAN :
                /\ calls' = Append(calls,
                       Call("checkout", ok, "", info.draft_number, NoRevision, {}))
                /\ Goto("check_type")
       ELSE IF info.revision # NoRevision
         THEN \E ok \in BOOLEAN :
                /\ calls' = Append(calls,
                       Call("checkout", ok, "", 0, info.revision, {}))
                /\ Goto("check_type")
       ELSE /\ Goto("check_type")
            /\ UNCHANGED calls
    /\ UNCHANGED <<obj, config, tbrn, is_recursive, gas, config_reads, info,
                   data_paths, data>>

\* Checkout without the branch for a revision
Checkout_DraftOnly ==
    /\ pc = "checkout"
    /\ IF info.is_draft
         THEN \E ok \in BOOLEAN :
                /\ calls' = Append(calls,
                       Call("checkout", ok, "", info.draft_number, NoRevision, {}))
                /\ IF ok THEN Goto("check_type") ELSE Raise
       ELSE /\ Goto("check_type")
            /\ UNCHANGED calls
    /\ UNCHANGED <<obj, config, tbrn, is_recursive, gas, config_reads, info,
                   data_paths, data>>

\* utility.py:134-138
Checkout ==
    /\ pc = "checkout"
    /\ IF info.is_draft
         THEN \E ok \in BOOLEAN :
                /\ calls' = Append(calls,
                       Call("checkout", ok, "", info.draft_number, NoRevision, {}))
                /\ IF ok THEN Goto("check_type") ELSE Raise
       ELSE IF info.revision # NoRevision
         THEN \E ok \in BOOLEAN :
                /\ calls' = Append(calls,
                       Call("checkout", ok, "", 0, info.revision, {}))
                /\ IF ok THEN Goto("check_type") ELSE Raise
       ELSE /\ Goto("check_type")
            /\ UNCHANGED calls
    /\ UNCHANGED <<obj, config, tbrn, is_recursive, gas, config_reads, info,
                   data_paths, data>>

\* CheckType with the file kinds of the locator data model both accepted
CheckType_FusionPasses ==
    /\ pc = "check_type"
    /\ IF info.type \notin {"SEGMENT", "NORMAL_FILE", "FUSION_FILE"}
         THEN Exit1("is an invalid path to remove", "InvalidTargetKind")
         ELSE Goto("check_draft")
    /\ UNCHANGED <<obj, config, tbrn, is_recursive, gas, config_reads, info,
                   data_paths, data, calls>>

\* rm.py:22-24
CheckType ==
    /\ pc = "check_type"
    /\ IF info.type \notin {"SEGMENT", "NORMAL_FILE"}
         THEN Exit1("is an invalid path to remove", "InvalidTargetKind")
         ELSE Goto("check_draft")
    /\ UNCHANGED <<obj, config, tbrn, is_recursive, gas, config_reads, info,
                   data_paths, data, calls>>

\* CheckDraft that takes any versioned locator for a draft
CheckDraft_RevisionPasses ==
    /\ pc = "check_draft"
    /\ IF ~info.is_draft /\ info.revision = NoRevision
         THEN Exit1("To remove the data, must be in draft status", "NotInDraft")
         ELSE Goto("dispatch")
    /\ UNCHANGED <<obj, config, tbrn, is_recursive, gas, config_reads, info,
                   data_paths, data, calls>>

\* CheckDraft with the segment's -r check moved in front of the draft check
CheckDraft_AfterRecursive ==
    /\ pc = "check_draft"
    /\ IF info.type = "SEGMENT" /\ ~is_recursive
         THEN Exit1("Please use -r option to remove the whole segment",
                    "SegmentRequiresRecursive")
       ELSE IF ~info.is_draft
         THEN Exit1("To remove the data, must be in draft status", "NotInDraft")
       ELSE Goto("dispatch")
    /\ UNCHANGED <<obj, config, tbrn, is_recursive, gas, config_reads, info,
                   data_paths, data, calls>>

\* rm.py:26-30
CheckDraft ==
    /\ pc = "check_draft"
    /\ IF ~info.is_draft
         THEN Exit1("To remove the data, must be in draft status", "NotInDraft")
         ELSE Goto("dispatch")
    /\ UNCHANGED <<obj, config, tbrn, is_recursive, gas, config_reads, info,
                   data_paths, data, calls>>

\* Dispatch that fetches the segment before it checks the directory's -r flag
Dispatch_SegmentFirst ==
    /\ pc = "dispatch"
    /\ IF info.type = "SEGMENT"
         THEN /\ IF ~is_recursive
                   THEN Exit1("Please use -r option to remove the whole segment",
                              "SegmentRequiresRecursive")
                   ELSE Goto("delete_segment")
              /\ UNCHANGED calls
       ELSE IF endswith(info.remote_path, <<"/">>) /\ ~is_recursive
         THEN /\ calls' = Append(calls,
                     Call("get_segment", TRUE, info.segment_name, 0, NoRevision, {}))
              /\ Exit1("Please use -r option to remove recursively",
                       "DirectoryRequiresRecursive")
       ELSE /\ Goto("get_segment")
            /\ UNCHANGED calls
    /\ UNCHANGED <<obj, config, tbrn, is_recursive, gas, config_reads, info,
                   data_paths, data>>

\* Dispatch without the -r check of a segment
Dispatch_NoSegmentCheck ==
    /\ pc = "dispatch"
    /\ IF info.type = "SEGMENT"
         THEN Goto("delete_segment")
       ELSE IF endswith(info.remote_path, <<"/">>) /\ ~is_recursive
         THEN Exit1("Please use -r option to remove recursively",
                    "DirectoryRequiresRecursive")
       ELSE Goto("get_segment")
    /\ UNCHANGED <<obj, config, tbrn, is_recursive, gas, config_reads, info,
                   data_paths, data, calls>>

\* Dispatch without the -r check of a directory path
Dispatch_NoDirectoryCheck ==
    /\ pc = "dispatch"
    /\ IF info.type = "SEGMENT"
         THEN IF ~is_recursive
                THEN Exit1("Please use -r option to remove the whole segment",
                           "SegmentRequiresRecursive")
                ELSE Goto("delete_segment")
       ELSE Goto("get_segment")
    /\ UNCHANGED <<obj, config, tbrn, is_recursive, gas, config_reads, info,
                   data_paths, data, calls>>

\* rm.py:32-40: the branch on the kind and the -r checks
Dispatch ==
    /\ pc = "dispatch"
    /\ IF info.type = "SEGMENT"
         THEN IF ~is_recursive
                THEN Exit1("Please use -r option to remove the whole segment",
                           "SegmentRequiresRecursive")
                ELSE Goto("delete_segment")
       ELSE IF endswith(info.remote_path, <<"/">>) /\ ~is_recursive
         THEN Exit1("Please use -r option to remove recursively",
                    "DirectoryRequiresRecursive")
       ELSE Goto("get_segment")
    /\ UNCHANGED <<obj, config, tbrn, is_recursive, gas, config_reads, info,
                   data_paths, data, calls>>

\* DeleteSegment followed by the file branch, as with `if` for `elif` at rm.py:37
DeleteSegment_FallsThrough ==
    /\ pc = "delete_segment"
    /\ \E ok \in BOOLEAN :
        /\ calls' = Append(calls,
               Call("delete_segment", ok, info.segment_name, 0, NoRevision, {}))
        /\ IF ok THEN Goto("get_segment") ELSE Raise
    /\ UNCHANGED <<obj, config, tbrn, is_recursive, gas, config_reads, info,
                   data_paths, data>>

\* rm.py:36
DeleteSegment ==
    /\ pc = "delete_segment"
    /\ \E ok \in BOOLEAN :
        /\ calls' = Append(calls,
               Call("delete_segment", ok, info.segment_name, 0, NoRevision, {}))
        /\ IF ok
             THEN /\ exit_code' = 0
                  /\ outcome' = "Success"
                  /\ pc' = "done"
                  /\ UNCHANGED stderr
             ELSE Raise
    /\ UNCHANGED <<obj, config, tbrn, is_recursive, gas, config_reads, info,
                   data_paths, data>>

\* rm.py:41
GetSegment ==
    /\ pc = "get_segment"
    /\ \E ok \in BOOLEAN :
        /\ calls' = Append(calls,
               Call("get_segment", ok, info.segment_name, 0, NoRevision, {}))
        /\ IF ok THEN Goto("list_data_paths") ELSE Raise
    /\ UNCHANGED <<obj, config, tbrn, is_recursive, gas, config_reads, info,
                   data_paths, data>>

\* rm.py:42, the argument segment.list_data_paths()
ListDataPaths ==
    /\ pc = "list_data_paths"
    /\ \/ \E listing \in Listings :
            /\ data_paths' = listing
            /\ calls' = Append(calls,
                   Call("list_data_paths", TRUE, info.segment_name, 0, NoRevision, {}))
            /\ Goto("filter_data")
       \/ /\ calls' = Append(calls,
                 Call("list_data_paths", FALSE, info.segment_name, 0, NoRevision, {}))
          /\ Raise
          /\ UNCHANGED data_paths
    /\ UNCHANGED <<obj, config, tbrn, is_recursive, gas, config_reads, info, data>>

\* FilterData that leaves is_recursive to filter_data's default
FilterData_DefaultRecursive ==
    /\ pc = "filter_data"
    /\ data' = filter_data(data_paths, info.remote_path, TRUE)
    /\ Goto("check_empty")
    /\ UNCHANGED <<obj, config, tbrn, is_recursive, gas, config_reads, info,
                   data_paths, calls>>

\* FilterData that never asks for the recursive match
FilterData_NeverRecursive ==
    /\ pc = "filter_data"
    /\ data' = filter_data(data_paths, info.remote_path, FALSE)
    /\ Goto("check_empty")
    /\ UNCHANGED <<obj, config, tbrn, is_recursive, gas, config_reads, info,
                   data_paths, calls>>

\* rm.py:42, the call of filter_data
FilterData ==
    /\ pc = "filter_data"
    /\ data' = filter_data(data_paths, info.remote_path, is_recursive)
    /\ Goto("check_empty")
    /\ UNCHANGED <<obj, config, tbrn, is_recursive, gas, config_reads, info,
                   data_paths, calls>>

\* CheckEmpty without the exit on an empty result
CheckEmpty_NoExit ==
    /\ pc = "check_empty"
    /\ Goto("delete_data")
    /\ UNCHANGED <<obj, config, tbrn, is_recursive, gas, config_reads, info,
                   data_paths, data, calls>>

\* CheckEmpty with the two wordings the wrong way round
CheckEmpty_SwappedWording ==
    /\ pc = "check_empty"
    /\ IF data = {}
         THEN Exit1(IF is_recursive THEN "No such file" ELSE "No such file or directory",
                    "NoSuchTarget")
         ELSE Goto("delete_data")
    /\ UNCHANGED <<obj, config, tbrn, is_recursive, gas, config_reads, info,
                   data_paths, data, calls>>

\* rm.py:43-46
CheckEmpty ==
    /\ pc = "check_empty"
    /\ IF data = {}
         THEN Exit1(IF is_recursive THEN "No such file or directory" ELSE "No such file",
                    "NoSuchTarget")
         ELSE Goto("delete_data")
    /\ UNCHANGED <<obj, config, tbrn, is_recursive, gas, config_reads, info,
                   data_paths, data, calls>>

\* DeleteData that swallows the exception of a failed delete
DeleteData_SwallowsError ==
    /\ pc = "delete_data"
    /\ \E ok \in BOOLEAN :
        /\ calls' = Append(calls,
               Call("delete_data", ok, info.segment_name, 0, NoRevision, data))
        /\ exit_code' = 0
        /\ outcome' = "Success"
        /\ pc' = "done"
        /\ UNCHANGED stderr
    /\ UNCHANGED <<obj, config, tbrn, is_recursive, gas, config_reads, info,
                   data_paths, data>>

\* DeleteData that hands over the requested path instead of the resolved set
DeleteData_RequestedPath ==
    /\ pc = "delete_data"
    /\ \E ok \in BOOLEAN :
        /\ calls' = Append(calls,
               Call("delete_data", ok, info.segment_name, 0, NoRevision, {info.remote_path}))
        /\ IF ok
             THEN /\ exit_code' = 0
                  /\ outcome' = "Success"
                  /\ pc' = "done"
                  /\ UNCHANGED stderr
             ELSE Raise
    /\ UNCHANGED <<obj, config, tbrn, is_recursive, gas, config_reads, info,
                   data_paths, data>>

\* DeleteData that hands over the whole listing
DeleteData_WholeListing ==
    /\ pc = "delete_data"
    /\ \E ok \in BOOLEAN :
        /\ calls' = Append(calls,
               Call("delete_data", ok, info.segment_name, 0, NoRevision, Range(data_paths)))
        /\ IF ok
             THEN /\ exit_code' = 0
                  /\ outcome' = "Success"
                  /\ pc' = "done"
                  /\ UNCHANGED stderr
             ELSE Raise
    /\ UNCHANGED <<obj, config, tbrn, is_recursive, gas, config_reads, info,
                   data_paths, data>>

\* rm.py:47
DeleteData ==
    /\ pc = "delete_data"
    /\ \E ok \in BOOLEAN :
        /\ calls' = Append(calls,
               Call("delete_data", ok, info.segment_name, 0, NoRevision, data))
        /\ IF ok
             THEN /\ exit_code' = 0
                  /\ outcome' = "Success"
                  /\ pc' = "done"
                  /\ UNCHANGED stderr
             ELSE Raise
    /\ UNCHANGED <<obj, config, tbrn, is_recursive, gas, config_reads, info,
                   data_paths, data>>

Next ==
    \/ GetGas
    \/ ParseTBRN
    \/ GetDataset
    \/ Checkout
    \/ CheckType
    \/ CheckDraft
    \/ Dispatch
    \/ DeleteSegment
    \/ GetSegment
    \/ ListDataPaths
    \/ FilterData
    \/ CheckEmpty
    \/ DeleteData

Spec == Init /\ [][Next]_vars

\* filter_data on its own inputs: the run stands at rm.py:42 with a listing,
\* a requested path and a flag of any values
InitFilter ==
    /\ obj = [access_key |-> "KEY", url |-> ""]
    /\ config = [exists |-> FALSE, has_profile |-> FALSE, accessKey |-> "", url |-> ""]
    /\ tbrn \in { r \in RawLocators :
                    /\ ~Malformed(r)
                    /\ r.has_segment
                    /\ r.path # <<>>
                    /\ ~r.fusion
                    /\ r.version = <<"1">> }
    /\ is_recursive \in BOOLEAN
    /\ pc = "filter_data"
    /\ gas = [access_key |-> "KEY", url |-> ""]
    /\ config_reads = 0
    /\ info = TBRN(tbrn)
    /\ data_paths \in Listings
    /\ data = {}
    /\ calls = << Call("get_dataset", TRUE, tbrn.dataset, 0, NoRevision, {}),
                  Call("checkout", TRUE, "", 1, NoRevision, {}),
                  Call("get_segment", TRUE, tbrn.segment, 0, NoRevision, {}),
                  Call("list_data_paths", TRUE, tbrn.segment, 0, NoRevision, {}) >>
    /\ stderr = <<>>
    /\ exit_code = Running
    /\ outcome = "Running"

NextFilter == FilterData

SpecFilter == InitFilter /\ [][NextFilter]_vars

----------------------------------------------------------------------------
(* Vocabulary of the claims *)

Done == pc = "done"

\* the kinds the locator data model calls file kinds
FileKinds == {"NORMAL_FILE", "FUSION_FILE"}

Rejections ==
    { "InvalidTargetKind", "NotInDraft", "SegmentRequiresRecursive",
      "DirectoryRequiresRecursive" }

DeleteCalls == { i \in DOMAIN calls : calls[i].op \in {"delete_segment", "delete_data"} }

CallsOf(op) == { i \in DOMAIN calls : calls[i].op = op }

\* the calls of a get_dataset_client that returned: the resolution, then
\* the one checkout the locator's version asks for
ResolveCalls ==
    << Call("get_dataset", TRUE, info.dataset_name, 0, NoRevision, {}) >>
    \o ( IF info.is_draft
           THEN << Call("checkout", TRUE, "", info.draft_number, NoRevision, {}) >>
         ELSE IF info.revision # NoRevision
           THEN << Call("checkout", TRUE, "", 0, info.revision, {}) >>
         ELSE << >> )

\* the run got as far as the checks of rm.py:22
Authorizing ==
    /\ pc \notin {"get_gas", "TBRN", "get_dataset", "checkout"}
    /\ Len(calls) >= Len(ResolveCalls)
    /\ SubSeq(calls, 1, Len(ResolveCalls)) = ResolveCalls

\* the listing was returned and filter_data and the emptiness check have run
Resolved ==
    /\ pc \in {"delete_data", "done"}
    /\ \E i \in DOMAIN calls : calls[i].op = "list_data_paths" /\ calls[i].ok

Ops == [ i \in DOMAIN calls |-> calls[i].op ]

IsPrefixOf(s, t) == Len(s) <= Len(t) /\ SubSeq(t, 1, Len(s)) = s

\* the locator tb:ds1#1
DS1Draft1 ==
    [ scheme |-> "tb", dataset |-> "ds1", has_segment |-> FALSE, segment |-> "",
      path |-> <<>>, version |-> <<"1">>, fusion |-> FALSE ]

----------------------------------------------------------------------------
(* C1 *)

\* C1 as stated: a delete call is issued only for a Draft locator, and a
\* run that reaches the checks with a SEGMENT or file-kind locator whose
\* version is None or a Revision ends NotInDraft with exit code 1 and no
\* delete call, whatever the -r flag.
C1_AsStated ==
    /\ (DeleteCalls # {} => info.is_draft)
    /\ (Done /\ Authorizing /\ info.type \in {"SEGMENT"} \cup FileKinds /\ ~info.is_draft
          => outcome = "NotInDraft" /\ exit_code = 1 /\ DeleteCalls = {})

\* C1 amended: a delete call is issued only for a Draft locator; a run that
\* reaches the checks with a SEGMENT or NORMAL_FILE locator whose version is
\* None or a Revision ends NotInDraft with exit code 1, whatever the -r flag;
\* a FUSION_FILE locator is rejected with InvalidTargetKind before the draft
\* check; no run with a non-draft locator issues a delete call.
C1_DraftOnly ==
    /\ (DeleteCalls # {} => info.is_draft)
    /\ (Done /\ Authorizing /\ info.type \in {"SEGMENT", "NORMAL_FILE"} /\ ~info.is_draft
          => outcome = "NotInDraft" /\ exit_code = 1 /\ DeleteCalls = {})
    /\ (Done /\ Authorizing /\ info.type = "FUSION_FILE"
          => outcome = "InvalidTargetKind" /\ exit_code = 1 /\ DeleteCalls = {})

C1_Witness ==
    /\ Done
    /\ outcome = "NotInDraft"
    /\ info.type = "NORMAL_FILE"
    /\ info.revision # NoRevision
    /\ is_recursive

----------------------------------------------------------------------------
(* C2 *)

\* C2: delete_data is never called with an empty set, and a run whose
\* filtered set is empty ends with the NoSuchTarget diagnostic and exit
\* code 1 without any delete_data or delete_segment call.
C2_NoEmptyDelete ==
    /\ \A i \in DOMAIN calls : calls[i].op = "delete_data" => calls[i].paths # {}
    /\ (Resolved /\ data = {}
          => /\ Done
             /\ outcome = "NoSuchTarget"
             /\ exit_code = 1
             /\ stderr \in { <<"No such file">>, <<"No such file or directory">> }
             /\ DeleteCalls = {})

C2_Witness ==
    /\ Done
    /\ outcome = "NoSuchTarget"
    /\ Len(data_paths) = 2
    /\ data = {}
    /\ DeleteCalls = {}

----------------------------------------------------------------------------
(* C3 *)

\* C3 as stated: a run that ends in a rejection has made no call on the
\* dataset service at all, and tb:ds1#1 is rejected with InvalidTargetKind
\* with no call made.
C3_AsStated ==
    /\ (outcome \in Rejections => calls = << >>)
    /\ (Done /\ Authorizing /\ tbrn = DS1Draft1
          => outcome = "InvalidTargetKind" /\ calls = << >>)

\* C3 amended: a run that ends in a rejection has made exactly the calls of
\* get_dataset_client (the dataset resolution and, when the locator carries
\* a version, one checkout), which run before the checks, and none after
\* them: no segment lookup, no listing, no delete.  tb:ds1#1 is rejected
\* with InvalidTargetKind after get_dataset(ds1) and checkout(draft 1).
C3_RejectionCalls ==
    /\ (outcome \in Rejections
          => /\ calls = ResolveCalls
             /\ CallsOf("get_segment") = {}
             /\ CallsOf("list_data_paths") = {}
             /\ DeleteCalls = {}
             /\ exit_code = 1)
    /\ (Done /\ Authorizing /\ tbrn = DS1Draft1
          => /\ outcome = "InvalidTargetKind"
             /\ calls = << Call("get_dataset", TRUE, "ds1", 0, NoRevision, {}),
                           Call("checkout", TRUE, "", 1, NoRevision, {}) >>)

C3_Witness ==
    /\ Done
    /\ tbrn = DS1Draft1
    /\ outcome = "InvalidTargetKind"
    /\ Len(calls) = 2

----------------------------------------------------------------------------
(* C4 *)

\* C4 as stated: of a run that reaches the checks, a locator that is
\* neither a segment nor a file is rejected with InvalidTargetKind even
\* when it is not a draft; a non-draft segment without -r, and a non-draft
\* file locator whose path ends with '/' without -r, are rejected with
\* NotInDraft, not with the -r diagnostics.
C4_AsStated ==
    Done /\ Authorizing =>
        /\ (info.type \notin {"SEGMENT"} \cup FileKinds => outcome = "InvalidTargetKind")
        /\ (info.type = "SEGMENT" /\ ~info.is_draft /\ ~is_recursive
              => outcome = "NotInDraft")
        /\ ((info.type \in FileKinds /\ ~info.is_draft
                /\ endswith(info.remote_path, <<"/">>) /\ ~is_recursive)
              => outcome = "NotInDraft")

\* C4 amended: the checks run in the order kind, draft status, -r flag and
\* the first that matches decides, where the kind rule passes SEGMENT and
\* NORMAL_FILE only: any other kind (FUSION_FILE too) is rejected with
\* InvalidTargetKind even when it is not a draft; a non-draft segment
\* without -r, and a non-draft NORMAL_FILE locator whose path ends with '/'
\* without -r, are rejected with NotInDraft; the -r diagnostics are given
\* to draft locators only.
C4_RuleOrder ==
    Done /\ Authorizing =>
        /\ (info.type \notin {"SEGMENT", "NORMAL_FILE"} => outcome = "InvalidTargetKind")
        /\ (info.type = "SEGMENT" /\ ~info.is_draft /\ ~is_recursive
              => outcome = "NotInDraft")
        /\ ((info.type = "NORMAL_FILE" /\ ~info.is_draft
                /\ endswith(info.remote_path, <<"/">>) /\ ~is_recursive)
              => outcome = "NotInDraft")
        /\ (outcome \in {"SegmentRequiresRecursive", "DirectoryRequiresRecursive"}
              => info.is_draft /\ info.type \in {"SEGMENT", "NORMAL_FILE"})

C4_Witness ==
    /\ Done
    /\ outcome = "NotInDraft"
    /\ info.type = "NORMAL_FILE"
    /\ endswith(info.remote_path, <<"/">>)
    /\ ~is_recursive

----------------------------------------------------------------------------
(* C5 *)

\* C5 as stated: a run that reaches the checks ends InvalidTargetKind
\* exactly when the kind is none of SEGMENT, NORMAL_FILE, FUSION_FILE; these
\* three go on to the draft check.
C5_AsStated ==
    Done /\ Authorizing =>
        (outcome = "InvalidTargetKind"
            <=> info.type \notin {"SEGMENT", "NORMAL_FILE", "FUSION_FILE"})

\* C5 amended: a run that reaches the checks ends InvalidTargetKind, with
\* exit code 1, exactly when the kind is neither SEGMENT nor NORMAL_FILE:
\* SEGMENT and NORMAL_FILE locators go on to the draft check, every other
\* kind, FUSION_FILE included, is rejected.
C5_KindRule ==
    /\ (Done /\ Authorizing =>
          (outcome = "InvalidTargetKind" <=> info.type \notin {"SEGMENT", "NORMAL_FILE"}))
    /\ (outcome = "InvalidTargetKind" => exit_code = 1)
    /\ (pc = "check_draft" => info.type \in {"SEGMENT", "NORMAL_FILE"})

C5_Witness ==
    /\ Done
    /\ outcome = "InvalidTargetKind"
    /\ info.type = "FUSION_FILE"
    /\ info.is_draft

----------------------------------------------------------------------------
(* C6 *)

\* C6: a run that reaches the checks with a draft SEGMENT locator ends,
\* without -r, SegmentRequiresRecursive with no delete call; with -r it
\* makes, after the resolution and the checkout of the locator's draft
\* number, exactly one more call, delete_segment with the locator's segment
\* name, and no listing and no delete_data.
C6_SegmentDeletion ==
    Done /\ Authorizing /\ info.type = "SEGMENT" /\ info.is_draft =>
        IF ~is_recursive
          THEN /\ outcome = "SegmentRequiresRecursive"
               /\ exit_code = 1
               /\ DeleteCalls = {}
          ELSE /\ Len(calls) = 3
               /\ calls[2] = Call("checkout", TRUE, "", IntOf(tbrn.version), NoRevision, {})
               /\ calls[3].op = "delete_segment"
               /\ calls[3].name = tbrn.segment
               /\ Cardinality(CallsOf("delete_segment")) = 1
               /\ CallsOf("list_data_paths") = {}
               /\ CallsOf("delete_data") = {}
               /\ (outcome = "Success" <=> calls[3].ok)

C6_Witness ==
    /\ Done
    /\ outcome = "Success"
    /\ info.type = "SEGMENT"
    /\ info.draft_number = 2
    /\ is_recursive
    /\ Len(calls) = 3

----------------------------------------------------------------------------
(* C7 *)

FileCallOrder ==
    << "get_dataset", "checkout", "get_segment", "list_data_paths", "delete_data" >>

\* C7: in a run with a draft file locator the calls on the client come in
\* the order get_dataset, checkout(draft), get_segment, list_data_paths,
\* delete_data, each at most once; a delete_data call comes after a
\* returned listing and carries exactly the set filter_data returned for
\* that listing; and a run that resolved a non-empty set issues exactly one
\* delete_data call.
C7_FileDeletionOrder ==
    info.type \in FileKinds /\ info.is_draft =>
        /\ IsPrefixOf(Ops, FileCallOrder)
        /\ (Len(calls) >= 2 =>
              calls[2].draft = IntOf(tbrn.version) /\ calls[2].revision = NoRevision)
        /\ \A i \in CallsOf("delete_data") :
              /\ \E j \in 1..(i - 1) : calls[j].op = "list_data_paths" /\ calls[j].ok
              /\ calls[i].paths = data
              /\ calls[i].paths =
                    { p \in Range(data_paths) : startswith(p, info.remote_path) /\
                        (is_recursive \/ p = info.remote_path) }
              /\ calls[i].name = info.segment_name
        /\ (Done /\ Resolved /\ data # {} => Cardinality(CallsOf("delete_data")) = 1)

C7_Witness ==
    /\ Done
    /\ outcome = "Success"
    /\ info.type = "NORMAL_FILE"
    /\ Len(data_paths) = 3
    /\ Cardinality(data) = 2
    /\ Len(calls) = 5

----------------------------------------------------------------------------
(* C8 *)

\* C8 as stated: a run that reaches the checks with a draft file locator
\* whose path ends with '/' ends, without -r, DirectoryRequiresRecursive
\* with exit code 1 and no segment lookup, listing or delete; with -r it
\* goes on to fetch the segment and list its paths.
C8_AsStated ==
    (Done /\ Authorizing /\ info.type \in FileKinds /\ info.is_draft
          /\ endswith(info.remote_path, <<"/">>)) =>
        IF ~is_recursive
          THEN /\ outcome = "DirectoryRequiresRecursive"
               /\ exit_code = 1
               /\ calls = ResolveCalls
          ELSE /\ Len(calls) >= 3
               /\ calls[3].op = "get_segment"
               /\ (calls[3].ok => Len(calls) >= 4 /\ calls[4].op = "list_data_paths")

\* C8 amended: the same of a draft NORMAL_FILE locator whose path ends with
\* '/'; a FUSION_FILE locator never gets to the -r check.
C8_DirectoryNeedsRecursive ==
    /\ ((Done /\ Authorizing /\ info.type = "NORMAL_FILE" /\ info.is_draft
            /\ endswith(info.remote_path, <<"/">>)) =>
          IF ~is_recursive
            THEN /\ outcome = "DirectoryRequiresRecursive"
                 /\ exit_code = 1
                 /\ calls = ResolveCalls
            ELSE /\ Len(calls) >= 3
                 /\ calls[3].op = "get_segment"
                 /\ (calls[3].ok => Len(calls) >= 4 /\ calls[4].op = "list_data_paths"))
    /\ (outcome = "DirectoryRequiresRecursive"
          => /\ info.type = "NORMAL_FILE"
             /\ info.is_draft
             /\ ~is_recursive
             /\ info.remote_path[Len(info.remote_path)] = "/")

C8_Witness ==
    /\ Done
    /\ outcome = "DirectoryRequiresRecursive"
    /\ info.remote_path = <<"a", "/">>
    /\ Len(calls) = 2

----------------------------------------------------------------------------
(* C9 *)

\* C9: without -r, filter_data returns the set holding the requested path
\* alone when the listing has that very path, and the empty set otherwise;
\* a path that only starts with the requested path is not in it.
C9_NonRecursiveFilter ==
    pc = "check_empty" /\ ~is_recursive =>
        /\ data = IF \E i \in DOMAIN data_paths : data_paths[i] = info.remote_path
                    THEN {info.remote_path}
                    ELSE {}
        /\ \A p \in Range(data_paths) : p # info.remote_path => p \notin data

C9_Witness ==
    /\ pc = "check_empty"
    /\ ~is_recursive
    /\ info.remote_path = <<"a", "/">>
    /\ data_paths = << <<"a", "/", "1">>, <<"a", "/", "2">> >>
    /\ data = {}

----------------------------------------------------------------------------
(* C10 *)

\* the first Len(prefix) characters of p are those of prefix
LiteralPrefix(prefix, p) ==
    /\ Len(p) >= Len(prefix)
    /\ \A k \in 1..Len(prefix) : p[k] = prefix[k]

\* C10: with -r, filter_data returns exactly the paths of the listing that
\* equal the requested path or start with it, character by character; of
\* the listing a/1, a/2, b/1 and the requested path a/ it returns a/1 and
\* a/2.
C10_RecursiveFilter ==
    pc = "check_empty" /\ is_recursive =>
        /\ data = { p \in Range(data_paths) :
                      p = info.remote_path \/ LiteralPrefix(info.remote_path, p) }
        /\ ((data_paths = << <<"a", "/", "1">>, <<"a", "/", "2">>, <<"b", "/", "1">> >>
               /\ info.remote_path = <<"a", "/">>)
              => data = { <<"a", "/", "1">>, <<"a", "/", "2">> })

C10_Witness ==
    /\ pc = "check_empty"
    /\ is_recursive
    /\ data_paths = << <<"a", "/", "1">>, <<"a", "/", "2">>, <<"b", "/", "1">> >>
    /\ info.remote_path = <<"a", "/">>
    /\ data = { <<"a", "/", "1">>, <<"a", "/", "2">> }

----------------------------------------------------------------------------
(* C11 *)

Outcomes ==
    Rejections \cup {"Success", "NoSuchTarget", "RemoteError", "MalformedLocator",
                     "ConfigError"}

\* C11 as stated: a finished run has exit code 0 exactly when it succeeded
\* and exit code 1 otherwise, and a run that ends in a rejection, a parse
\* failure, an empty resolved set or a failed client call has written
\* exactly one line to the error stream.
C11_AsStated ==
    Done =>
        /\ outcome \in Outcomes
        /\ exit_code \in {0, 1}
        /\ (exit_code = 0 <=> outcome = "Success")
        /\ (outcome \in Rejections \cup {"MalformedLocator", "NoSuchTarget", "RemoteError"}
              => exit_code = 1 /\ Len(stderr) = 1)

\* C11 amended: a finished run has exit code 0 exactly when it succeeded
\* (its last call, a delete, returned, and nothing was written to the error
\* stream) and exit code 1 otherwise; a run that ends in a rejection or in
\* an empty resolved set has written exactly one line to the error stream;
\* a parse failure and a failed client call end the run with exit code 1
\* through an exception that _implement_rm does not catch, whose report is
\* the interpreter's traceback, more than one line.
C11_ExitCodes ==
    /\ (Done =>
          /\ outcome \in Outcomes
          /\ exit_code \in {0, 1}
          /\ (exit_code = 0 <=> outcome = "Success")
          /\ (outcome = "Success" =>
                /\ stderr = << >>
                /\ DeleteCalls = {Len(calls)}
                /\ \A i \in DOMAIN calls : calls[i].ok)
          /\ (outcome \in Rejections \cup {"NoSuchTarget"}
                => exit_code = 1 /\ Len(stderr) = 1)
          /\ (outcome = "MalformedLocator" => exit_code = 1 /\ stderr # << >>)
          /\ (outcome = "RemoteError"
                => /\ exit_code = 1
                   /\ stderr = Traceback
                   /\ calls # << >>
                   /\ ~calls[Len(calls)].ok))
    /\ (~Done => exit_code = Running /\ outcome = "Running" /\ stderr = << >>)

C11_Witness ==
    /\ Done
    /\ outcome = "RemoteError"
    /\ exit_code = 1
    /\ Len(calls) = 5
    /\ calls[5].op = "delete_data"
    /\ Len(stderr) = 3

----------------------------------------------------------------------------
(* C12 *)

\* C12: a run whose locator string is outside the grammar never makes a
\* call on the dataset service, and when it has ended its exit code is 1.
C12_MalformedNoCalls ==
    Malformed(tbrn) =>
        /\ calls = << >>
        /\ info = NoInfo
        /\ pc \in {"get_gas", "TBRN", "done"}
        /\ (Done => exit_code = 1 /\ outcome \in {"MalformedLocator", "ConfigError"})
        /\ (Done /\ gas # NoGas => outcome = "MalformedLocator")

C12_Witness ==
    /\ Done
    /\ outcome = "MalformedLocator"
    /\ tbrn.scheme = "xx"
    /\ tbrn.dataset = "ds1"
    /\ gas # NoGas
    /\ calls = << >>

----------------------------------------------------------------------------
(* C13 *)

FailedCalls == { i \in DOMAIN calls : ~calls[i].ok }

\* C13: a client call that failed is the last call of the run: it is not
\* issued again and no call follows it, so no delete follows a failed
\* resolution, checkout, segment lookup or listing; the run has ended with
\* exit code 1.
C13_FailureTerminal ==
    \A i \in FailedCalls :
        /\ i = Len(calls)
        /\ Done
        /\ outcome = "RemoteError"
        /\ exit_code = 1
        /\ \A j \in DOMAIN calls : j # i => calls[j].op # calls[i].op
        /\ (calls[i].op \notin {"delete_segment", "delete_data"} => DeleteCalls = {})

C13_Witness ==
    /\ Done
    /\ Len(calls) = 4
    /\ calls[4].op = "list_data_paths"
    /\ ~calls[4].ok
    /\ DeleteCalls = {}

----------------------------------------------------------------------------
(* C14 *)

\* get_dataset_client got its dataset client and is past its checkout
AfterCheckout ==
    /\ pc \notin {"get_gas", "TBRN", "get_dataset", "checkout"}
    /\ calls # << >>
    /\ calls[1].ok

\* C14: get_dataset_client issues at most one checkout: for a Draft locator
\* exactly one, by the locator's draft number and not by revision; for a
\* Revision locator exactly one, by that revision; for a locator without
\* version none; and is_draft holds exactly of the Draft locators.
C14_OneCheckout ==
    /\ Cardinality(CallsOf("checkout")) <= 1
    /\ \A i \in CallsOf("checkout") : i = 2 /\ calls[1].op = "get_dataset"
    /\ (info # NoInfo =>
          /\ (info.is_draft <=> IsDraftToken(tbrn.version))
          /\ (info.is_draft <=> info.draft_number > 0)
          /\ (info.is_draft => info.revision = NoRevision))
    /\ (AfterCheckout =>
          IF info.is_draft
            THEN /\ Cardinality(CallsOf("checkout")) = 1
                 /\ calls[2].draft = IntOf(tbrn.version)
                 /\ calls[2].revision = NoRevision
          ELSE IF tbrn.version # << >>
            THEN /\ Cardinality(CallsOf("checkout")) = 1
                 /\ calls[2].revision = tbrn.version
                 /\ calls[2].draft = 0
          ELSE CallsOf("checkout") = {})

C14_Witness ==
    /\ AfterCheckout
    /\ tbrn.version = <<"v", "2">>
    /\ ~info.is_draft
    /\ Len(calls) = 2
    /\ calls[2] = Call("checkout", TRUE, "", 0, <<"v", "2">>, {})

----------------------------------------------------------------------------
(* C15 *)

\* C15: a run issues at most one mutating call, delete_segment or
\* delete_data, never both and never one twice; the mutating call is the
\* last call of the run and comes after the kind check, the draft check
\* and the -r checks have all passed.
C15_OneMutation ==
    /\ Cardinality(DeleteCalls) <= 1
    /\ \A i \in DeleteCalls :
          /\ i = Len(calls)
          /\ Done
          /\ SubSeq(calls, 1, Len(ResolveCalls)) = ResolveCalls
          /\ info.type \in {"SEGMENT", "NORMAL_FILE"}
          /\ info.is_draft
          /\ (calls[i].op = "delete_segment" <=> info.type = "SEGMENT")
          /\ (info.type = "SEGMENT" => is_recursive)
          /\ (endswith(info.remote_path, <<"/">>) => is_recursive)

C15_Witness ==
    /\ Done
    /\ is_recursive
    /\ info.type = "NORMAL_FILE"
    /\ info.remote_path = <<"a", "/">>
    /\ DeleteCalls = {5}
    /\ Len(calls) = 5

----------------------------------------------------------------------------
(* C16 *)

\* C16: every path handed to delete_data is one of the paths that
\* list_data_paths returned in the same run, with and without -r.
C16_DeletedWereListed ==
    /\ data \subseteq Range(data_paths)
    /\ \A i \in CallsOf("delete_data") :
          /\ \A p \in calls[i].paths : \E k \in DOMAIN data_paths : data_paths[k] = p
          /\ \E j \in 1..(i - 1) : calls[j].op = "list_data_paths" /\ calls[j].ok

C16_Witness ==
    /\ Done
    /\ is_recursive
    /\ info.remote_path = <<"a", "/">>
    /\ data_paths = << <<"a">>, <<"a", "/", "2">>, <<"a", "b">> >>
    /\ CallsOf("delete_data") = {5}
    /\ calls[5].paths = { <<"a", "/", "2">> }

----------------------------------------------------------------------------
(* C17 *)

\* C17: a run whose resolved set is empty writes "No such file or
\* directory" when -r was given and "No such file" when not, whatever the
\* locator and the listing, and exits with code 1 with the listing as its
\* last call and no delete call.
C17_EmptyResultWording ==
    /\ (Resolved /\ data = {} => outcome = "NoSuchTarget")
    /\ (outcome = "NoSuchTarget" =>
          /\ data = {}
          /\ stderr = << IF is_recursive THEN "No such file or directory"
                                         ELSE "No such file" >>
          /\ exit_code = 1
          /\ calls # << >>
          /\ calls[Len(calls)].op = "list_data_paths"
          /\ calls[Len(calls)].ok
          /\ DeleteCalls = {})

C17_Witness ==
    /\ Done
    /\ outcome = "NoSuchTarget"
    /\ is_recursive
    /\ stderr = << "No such file or directory" >>
    /\ data_paths = << <<"b", "/", "1">> >>
    /\ info.remote_path = <<"a", "/">>

----------------------------------------------------------------------------
(* C18 *)

\* C18: get_gas reads the config file exactly when access_key and url are
\* both empty, and at most once; it builds a GAS client only with a
\* non-empty access key; with the access key still empty after that step
\* the run ends with exit code 1 and "AccessKey should be appointed"; with
\* a url and no access key the config file is not read and the run fails.
C18_Credentials ==
    /\ config_reads \in {0, 1}
    /\ (pc # "get_gas" =>
          /\ (config_reads = 1 <=> (obj.access_key = "" /\ obj.url = ""))
          /\ (gas # NoGas => gas.access_key # "")
          /\ (gas = NoGas => Done /\ outcome = "ConfigError" /\ exit_code = 1
                               /\ calls = << >>)
          /\ (gas # NoGas /\ config_reads = 0 =>
                gas = [access_key |-> obj.access_key, url |-> obj.url])
          /\ (gas # NoGas /\ config_reads = 1 =>
                gas = [access_key |-> config.accessKey, url |-> config.url])
          /\ ((obj.access_key = "" /\ obj.url # "") =>
                /\ config_reads = 0
                /\ gas = NoGas
                /\ stderr = << "ERROR: AccessKey should be appointed" >>)
          /\ ((obj.access_key = "" /\ obj.url = "" /\ config.has_profile
                 /\ config.accessKey = "") =>
                /\ gas = NoGas
                /\ stderr = << "ERROR: AccessKey should be appointed" >>))
    /\ (pc = "get_gas" => gas = NoGas /\ config_reads = 0)

C18_Witness ==
    /\ Done
    /\ obj = [access_key |-> "", url |-> "URL"]
    /\ config.has_profile
    /\ config.accessKey = "KEY"
    /\ config_reads = 0
    /\ gas = NoGas
    /\ exit_code = 1

====
